---------------------------- MODULE Spec2Model ----------------------------
(***************************************************************************)
(* Model of the Sighax simulator core (crypto_engine.py): the signature    *)
(* block builder SignatureBlock, the legitimate parser trace               *)
(* bootrom_verify_correct, the forging step forge_sighax and the           *)
(* adversarial trace bootrom_verify_vulnerable; and of the step-by-step    *)
(* player of the legitimate trace, VerifyWidget (ui_verify.py).            *)
(*                                                                         *)
(* Byte strings are sequences of integers 0..255.  Python offsets are      *)
(* 0-based; At and Slice translate them to the 1-based sequences of TLA+.  *)
(***************************************************************************)
EXTENDS Integers, Sequences, FiniteSets, TLC

VARIABLES
    pc,          \* which call has returned: "idle", "built", "raised",
                 \* "traced", "forged", "exploited"
    firmware,    \* the firmware argument of the call
    fault,       \* the corruption applied to the block before parsing, or None
    blk,         \* the SignatureBlock the call built, or None
    forge_info,  \* the info dict of forge_sighax, or None
    steps,       \* the list of step dicts the call returned
    args,        \* the other arguments of the call: padding_type and
                 \* override of SignatureBlock, data and cols of hex_dump
    dump,        \* the string hex_dump returned, a sequence of code points
    w_steps,            \* VerifyWidget._steps
    w_step_idx,         \* VerifyWidget._step_idx
    timer_active,       \* VerifyWidget._timer is running
    btn_run_enabled,    \* VerifyWidget._btn_run is enabled
    btn_step_enabled,   \* VerifyWidget._btn_step is enabled
    viz,                \* the step the visualizer shows, or None
    calls               \* the handlers run since the last reset, each with
                        \* the indices of the steps it displayed

engine_vars == <<pc, firmware, fault, blk, forge_info, steps, args, dump>>

widget_vars == <<w_steps, w_step_idx, timer_active, btn_run_enabled,
                 btn_step_enabled, viz, calls>>

vars == <<pc, firmware, fault, blk, forge_info, steps, args, dump,
          w_steps, w_step_idx, timer_active, btn_run_enabled,
          btn_step_enabled, viz, calls>>

\* Python's None, and a value that is present: an optional value is a
\* sequence of at most one element
None == <<>>
Some(v) == <<v>>

-----------------------------------------------------------------------------
(* Bounds of the model *)

\* how many handler calls the history of the widget keeps
MaxCalls == 12

\* longest firmware byte string supplied to a call
MaxFwLen == 2

\* byte values firmware strings are made of
FwAlphabet == {0, 78}

\* byte values written by a corruption of the block
FaultValues == {0, 1, 2, 48, 255}

RECURSIVE SeqsUpTo(_, _)
SeqsUpTo(S, n) ==
    IF n = 0 THEN {<<>>}
    ELSE LET shorter == SeqsUpTo(S, n - 1)
         IN  shorter \cup {Append(s, b) : s \in shorter, b \in S}

Firmwares == SeqsUpTo(FwAlphabet, MaxFwLen)

\* padding_type arguments: the two layouts, an unknown type, an
\* out-of-byte-range value
PaddingTypes == {1, 2, 3, 256}

\* inner_block_len_override arguments (None: not supplied)
Overrides == {None, Some(0), Some(13), Some(15), Some(255), Some(256)}

\* longest byte string given to hex_dump
MaxDumpLen == 33

\* first byte and increment of the byte strings given to hex_dump
DumpStarts == {0, 10, 32, 48, 65, 250}
DumpSteps == {0, 1, 37}

\* the byte strings given to hex_dump: n bytes start, start + step, ...
DumpInputs ==
    { [k \in 1..n |-> (start + step * (k - 1)) % 256] :
        n \in 0..MaxDumpLen, start \in DumpStarts, step \in DumpSteps }

-----------------------------------------------------------------------------
(* Program constants *)

HASH_LEN == 32
PADDING_TYPE_PADDED == 1
PADDING_TYPE_UNPADDED == 2
INNER_BLOCK_REAL_LEN == 13
TOTAL_BLOCK_SIZE == 128

-----------------------------------------------------------------------------
(* Byte-string helpers (Python semantics) *)

Max(a, b) == IF a >= b THEN a ELSE b
Min(a, b) == IF a <= b THEN a ELSE b

\* data[i], i a 0-based index inside the string
At(data, i) == data[i + 1]

\* data[a:b] with 0 <= a: the slice is clamped to the length of data
Slice(data, a, b) ==
    LET hi == Min(b, Len(data))
    IN  IF a >= hi THEN <<>> ELSE [k \in 1..(hi - a) |-> data[a + k]]

\* b'\xFF' * n
Repeat(b, n) == [k \in 1..n |-> b]

\* bytes([...]) accepts only values 0..255 (ValueError otherwise)
IsByte(v) == v \in 0..255

\* mutant: .hex() without .upper()
HexUpper_Lower(data) ==
    LET digits == <<"0", "1", "2", "3", "4", "5", "6", "7",
                    "8", "9", "a", "b", "c", "d", "e", "f">>
    IN  [k \in 1..(2 * Len(data)) |->
            LET b == data[(k + 1) \div 2]
            IN  IF k % 2 = 1 THEN digits[(b \div 16) + 1]
                             ELSE digits[(b % 16) + 1]]

HexDigits == <<"0", "1", "2", "3", "4", "5", "6", "7",
               "8", "9", "A", "B", "C", "D", "E", "F">>

\* data.hex().upper(): two uppercase hex digits per byte, high nibble first
HexUpper(data) ==
    [k \in 1..(2 * Len(data)) |->
        LET b == data[(k + 1) \div 2]
        IN  IF k % 2 = 1 THEN HexDigits[(b \div 16) + 1]
                         ELSE HexDigits[(b % 16) + 1]]

\* Stand-in for hashlib.sha256(data).digest(): a deterministic 32-byte
\* digest that depends on every byte of data and on its length.
\* The digest state is h := (h * 33 + byte + 1) % 65521 over the bytes in
\* order, starting from 106; it is computed by halves, which keeps the
\* evaluation shallow for long inputs, with products kept below 2^31.
MulMod(a, b) ==
    (((a * (b \div 256)) % 65521) * 256 + a * (b % 256)) % 65521

RECURSIVE Pow33(_)
Pow33(n) ==
    IF n = 0 THEN 1
    ELSE LET h  == Pow33(n \div 2)
             sq == MulMod(h, h)
         IN  IF n % 2 = 0 THEN sq ELSE (sq * 33) % 65521

\* what the bytes lo..hi add to the state
RECURSIVE AbsorbRange(_, _, _)
AbsorbRange(data, lo, hi) ==
    IF lo > hi THEN 0
    ELSE IF lo = hi THEN data[lo] + 1
    ELSE LET mid == (lo + hi) \div 2
         IN  (MulMod(AbsorbRange(data, lo, mid), Pow33(hi - mid))
                 + AbsorbRange(data, mid + 1, hi)) % 65521

Absorb(data) ==
    (MulMod(106, Pow33(Len(data))) + AbsorbRange(data, 1, Len(data))) % 65521

SHA256(data) ==
    [k \in 1..HASH_LEN |-> (Absorb(data) * (2 * k + 1) + 29 * k) % 256]


-----------------------------------------------------------------------------
(* SignatureBlock *)

\* the fixed 13-byte identifier (OID of SHA-256)
inner_block == <<6, 9, 96, 134, 72, 1, 101, 3, 4, 2, 1, 5, 0>>

\* mutant: the override is dropped and the constant 13 always stored
inner_block_len_byte_IgnoresOverride(override) == INNER_BLOCK_REAL_LEN

\* __init__: the skip-length byte is the override when one is supplied
inner_block_len_byte(override) ==
    IF override # None THEN override[1] ELSE INNER_BLOCK_REAL_LEN

\* mutant: the first byte of the header is 0x01
Header_WrongStart(padding_type) == <<1, padding_type>>

\* header = bytes([0x00, padding_type])
Header(padding_type) == <<0, padding_type>>

\* mutant: the 0xFF run is emitted whatever the padding type is
Padding_IgnoresType(padding_type) ==
    LET fixed_tail == 1 + 1 + 1 + 1 + 1 + INNER_BLOCK_REAL_LEN + 1 + 1 + HASH_LEN
        pad_len    == TOTAL_BLOCK_SIZE - Len(Header(padding_type)) - 1 - fixed_tail
    IN  Repeat(255, Max(pad_len, 8))

\* mutant: the separator is not subtracted a second time, one more 0xFF
Padding_OneMore(padding_type) ==
    IF padding_type = 1
    THEN LET fixed_tail == 1 + 1 + 1 + 1 + 1 + INNER_BLOCK_REAL_LEN + 1 + 1 + HASH_LEN
             pad_len    == TOTAL_BLOCK_SIZE - Len(Header(padding_type)) - fixed_tail
         IN  Repeat(255, Max(pad_len, 8))
    ELSE <<>>

\* mutant: the minimum run length is 80 instead of 8
Padding_ClampsHigh(padding_type) ==
    IF padding_type = 1
    THEN LET fixed_tail == 1 + 1 + 1 + 1 + 1 + INNER_BLOCK_REAL_LEN + 1 + 1 + HASH_LEN
             pad_len    == TOTAL_BLOCK_SIZE - Len(Header(padding_type)) - 1 - fixed_tail
         IN  Repeat(255, Max(pad_len, 80))
    ELSE <<>>

\* mutant: fixed_tail leaves out the 32 bytes of the hash
Padding_ForgetsHash(padding_type) ==
    IF padding_type = 1
    THEN LET fixed_tail == 1 + 1 + 1 + 1 + 1 + INNER_BLOCK_REAL_LEN + 1 + 1
             pad_len    == TOTAL_BLOCK_SIZE - Len(Header(padding_type)) - 1 - fixed_tail
         IN  Repeat(255, Max(pad_len, 8))
    ELSE <<>>

\* the run of 0xFF bytes of _build, empty unless padding_type == 0x01
Padding(padding_type) ==
    IF padding_type = 1
    THEN LET fixed_tail == 1 + 1 + 1 + 1 + 1 + INNER_BLOCK_REAL_LEN + 1 + 1 + HASH_LEN
             pad_len    == TOTAL_BLOCK_SIZE - Len(Header(padding_type)) - 1 - fixed_tail
         IN  Repeat(255, Max(pad_len, 8))
    ELSE <<>>

\* mutant: only as many identifier bytes as the skip-length byte says
AfterPadding_TruncatesIdentifier(firmware_data, override) ==
    <<48, 49, 48, inner_block_len_byte(override)>>
        \o Slice(inner_block, 0, inner_block_len_byte(override))
        \o <<4, 32>> \o SHA256(firmware_data)

\* after_padding = bytes([0x30, 0x31, 0x30, len_byte]) + inner_block
\*                 + bytes([0x04, 0x20]) + correct_hash
AfterPadding(firmware_data, override) ==
    <<48, 49, 48, inner_block_len_byte(override)>> \o inner_block
        \o <<4, 32>> \o SHA256(firmware_data)

\* mutant: a block shorter than TOTAL_BLOCK_SIZE is filled with zero bytes
Raw_ZeroFilled(firmware_data, padding_type, override) ==
    LET whole == Header(padding_type) \o Padding(padding_type) \o <<0>>
                    \o AfterPadding(firmware_data, override)
    IN  [k \in 1..TOTAL_BLOCK_SIZE |-> IF k <= Len(whole) THEN whole[k] ELSE 0]

\* self.raw: everything concatenated, cut to TOTAL_BLOCK_SIZE bytes
Raw(firmware_data, padding_type, override) ==
    Slice(Header(padding_type) \o Padding(padding_type) \o <<0>>
            \o AfterPadding(firmware_data, override),
          0, TOTAL_BLOCK_SIZE)

\* mutant: only the padding type is range-checked
BuildRaises_TypeOnly(padding_type, override) == ~IsByte(padding_type)

\* bytes([...]) raises ValueError for a value outside 0..255
BuildRaises(padding_type, override) ==
    \/ ~IsByte(padding_type)
    \/ ~IsByte(inner_block_len_byte(override))

\* SignatureBlock(firmware_data, padding_type, inner_block_len_override):
\* the object after __init__ and _build
SignatureBlock(firmware_data, padding_type, override) ==
    LET padding       == Padding(padding_type)
        hp            == Len(Header(padding_type) \o padding)
        off_separator == hp
        off_0d        == off_separator + 4
        off_inner_start == off_0d + 1
        off_inner_end == off_inner_start + INNER_BLOCK_REAL_LEN
        off_correct_hash == off_inner_end + 2
    IN  [ firmware_data        |-> firmware_data,
          padding_type         |-> padding_type,
          inner_block_len_byte |-> inner_block_len_byte(override),
          raw                  |-> Raw(firmware_data, padding_type, override),
          off_byte0            |-> 0,
          off_byte1            |-> 1,
          off_padding_start    |-> 2,
          off_padding_end      |-> IF padding # <<>> THEN hp - 1 ELSE 1,
          off_separator        |-> off_separator,
          off_30_1             |-> off_separator + 1,
          off_31               |-> off_separator + 2,
          off_30_2             |-> off_separator + 3,
          off_0d               |-> off_0d,
          off_inner_start      |-> off_inner_start,
          off_inner_end        |-> off_inner_end,
          off_04               |-> off_inner_end,
          off_20               |-> off_inner_end + 1,
          off_correct_hash     |-> off_correct_hash,
          off_calc_hash        |-> off_correct_hash + HASH_LEN,
          correct_hash         |-> SHA256(firmware_data),
          calculated_hash      |-> SHA256(firmware_data) ]

\* the block with the byte at 0-based offset i replaced by v
Corrupt(b, i, v) == [b EXCEPT !.raw[i + 1] = v]

-----------------------------------------------------------------------------
(* Step dicts *)

\* One step dict.  'fatal' and 'vuln' are FALSE where the dict has no such
\* key (readers use s.get); hex_block and pointer_at are None where the
\* dict has no such key.  vals keeps the entries computed from the data.
StepDict(id, tag, ok, fatal, vuln, vals, hex_block, pointer_at) ==
    [ id |-> id, tag |-> tag, ok |-> ok, fatal |-> fatal, vuln |-> vuln,
      vals |-> vals, hex_block |-> hex_block, pointer_at |-> pointer_at ]

-----------------------------------------------------------------------------
(* bootrom_verify_correct: the steps, each from the block b it parses *)

\* id 0: boot, hash of the firmware
CorrectStep0(fw) ==
    StepDict(0, "INFO", TRUE, FALSE, FALSE,
             [sha256_firm |-> HexUpper(SHA256(fw))], None, None)

\* id 1: decrypt the signature
CorrectStep1(b) ==
    StepDict(1, "INFO", TRUE, FALSE, FALSE,
             [operacion |-> "M = S^e mod N"], Some(b.raw), None)

\* id 2: byte 0 must be 0x00
CorrectStep2(b) ==
    LET b0    == At(b.raw, b.off_byte0)
        b0_ok == (b0 = 0)
    IN  StepDict(2, IF b0_ok THEN "PASS" ELSE "FAIL", b0_ok, ~b0_ok, FALSE,
                 [esperado |-> 0, recibido |-> b0],
                 Some(b.raw), Some(b.off_byte0))

\* id 3: byte 1, the padding type, always PASS
CorrectStep3(b) ==
    StepDict(3, "PASS", TRUE, FALSE, FALSE,
             [recibido |-> At(b.raw, b.off_byte1)],
             Some(b.raw), Some(b.off_byte1))

\* padding_exists and blk.off_padding_start < blk.off_separator
HasPaddingStep(b) ==
    /\ At(b.raw, b.off_byte1) = 1
    /\ b.off_padding_start < b.off_separator

\* mutant: the padding slice starts one byte late
CorrectStep4_SkipsFirst(b) ==
    LET pad_data == Slice(b.raw, b.off_padding_start + 1, b.off_separator)
        pad_ok   == \A k \in 1..Len(pad_data) : pad_data[k] = 255
    IN  StepDict(4, IF pad_ok THEN "PASS" ELSE "FAIL", pad_ok, ~pad_ok, FALSE,
                 [bytes_de_padding |-> Len(pad_data), todos_ff |-> pad_ok],
                 Some(b.raw), Some(b.off_padding_start))

\* id 4: every padding byte must be 0xFF
CorrectStep4(b) ==
    LET pad_data == Slice(b.raw, b.off_padding_start, b.off_separator)
        pad_ok   == \A k \in 1..Len(pad_data) : pad_data[k] = 255
    IN  StepDict(4, IF pad_ok THEN "PASS" ELSE "FAIL", pad_ok, ~pad_ok, FALSE,
                 [bytes_de_padding |-> Len(pad_data), todos_ff |-> pad_ok],
                 Some(b.raw), Some(b.off_padding_start))

\* id 5: the separator must be 0x00
CorrectStep5(b) ==
    LET sep    == At(b.raw, b.off_separator)
        sep_ok == (sep = 0)
    IN  StepDict(5, IF sep_ok THEN "PASS" ELSE "FAIL", sep_ok, ~sep_ok, FALSE,
                 [esperado |-> 0, recibido |-> sep],
                 Some(b.raw), Some(b.off_separator))

\* mutant: the middle byte is checked too and the tag follows the check
CorrectStep6_ChecksMiddle(b) ==
    LET b30a == At(b.raw, b.off_30_1)
        b31  == At(b.raw, b.off_31)
        b30b == At(b.raw, b.off_30_2)
        good == (b30a = 48 /\ b31 = 49 /\ b30b = 48)
    IN  StepDict(6, IF good THEN "PASS" ELSE "FAIL", good, FALSE, FALSE,
                 [b30a |-> b30a, b31 |-> b31, b30b |-> b30b],
                 Some(b.raw), Some(b.off_30_1))

\* id 6: 0x30, 0x31, 0x30; the tag is 'PASS' whatever the bytes are
CorrectStep6(b) ==
    LET b30a == At(b.raw, b.off_30_1)
        b31  == At(b.raw, b.off_31)
        b30b == At(b.raw, b.off_30_2)
    IN  StepDict(6, "PASS", (b30a = 48 /\ b30b = 48), FALSE, FALSE,
                 [b30a |-> b30a, b31 |-> b31, b30b |-> b30b],
                 Some(b.raw), Some(b.off_30_1))

\* mutant: the skip is counted from the skip-length byte itself
CorrectStep7_FromLengthByte(b) ==
    LET od_val == At(b.raw, b.off_0d)
    IN  StepDict(7, "INFO", TRUE, FALSE, FALSE,
                 [valor |-> od_val,
                  puntero_tras_skip |-> b.off_0d + od_val],
                 Some(b.raw), Some(b.off_0d))

\* id 7: the skip-length byte and where the pointer is after the skip
CorrectStep7(b) ==
    LET od_val == At(b.raw, b.off_0d)
    IN  StepDict(7, "INFO", TRUE, FALSE, FALSE,
                 [valor |-> od_val,
                  puntero_tras_skip |-> b.off_inner_start + od_val],
                 Some(b.raw), Some(b.off_0d))

\* id 8: 0x04, 0x20, read as 0 when past the end of raw
CorrectStep8(b) ==
    LET b04 == IF b.off_04 < Len(b.raw) THEN At(b.raw, b.off_04) ELSE 0
        b20 == IF b.off_20 < Len(b.raw) THEN At(b.raw, b.off_20) ELSE 0
    IN  StepDict(8, "INFO", TRUE, FALSE, FALSE,
                 [b04 |-> b04, b20 |-> b20, siguiente |-> b.off_correct_hash],
                 Some(b.raw), Some(b.off_04))

\* mutant: the slice starts one byte early, at off_20
ReadCorrectHash_OneEarly(b) ==
    Slice(b.raw, b.off_20, b.off_20 + HASH_LEN)

\* the 32 bytes the parser reads as correct_hash
ReadCorrectHash(b) ==
    Slice(b.raw, b.off_correct_hash, b.off_correct_hash + HASH_LEN)

\* mutant: the comparison uses the attribute blk.correct_hash, not the
\* bytes of raw
CorrectStep9_ComparesAttribute(b, fw) ==
    LET correct_hash    == b.correct_hash
        calculated_hash == SHA256(fw)
        match           == (correct_hash = calculated_hash)
    IN  StepDict(9, IF match THEN "VERIFIED" ELSE "FAIL", match, ~match, FALSE,
                 [correct_hash    |-> HexUpper(correct_hash),
                  calculated_hash |-> HexUpper(calculated_hash)],
                 Some(b.raw), Some(b.off_correct_hash))

\* id 9: correct_hash of the block against SHA-256 of the firmware
CorrectStep9(b, fw) ==
    LET correct_hash    == ReadCorrectHash(b)
        calculated_hash == SHA256(fw)
        match           == (correct_hash = calculated_hash)
    \* "VERIFIED" stands for the tag 'VERIFIED' followed by a check mark
    IN  StepDict(9, IF match THEN "VERIFIED" ELSE "FAIL", match, ~match, FALSE,
                 [correct_hash    |-> HexUpper(correct_hash),
                  calculated_hash |-> HexUpper(calculated_hash)],
                 Some(b.raw), Some(b.off_correct_hash))

\* mutant: no return after a failed separator check
ParseFromSeparator_NoReturn(b, fw, sofar) ==
    sofar \o <<CorrectStep5(b), CorrectStep6(b), CorrectStep7(b),
               CorrectStep8(b), CorrectStep9(b, fw)>>

\* from the separator check to the end of the function
ParseFromSeparator(b, fw, sofar) ==
    LET s5 == CorrectStep5(b)
    IN  IF ~s5.ok
        THEN Append(sofar, s5)
        ELSE sofar \o <<s5, CorrectStep6(b), CorrectStep7(b),
                        CorrectStep8(b), CorrectStep9(b, fw)>>

\* from the padding-type byte on: the padding step only when padding exists
ParseFromByte1(b, fw, sofar) ==
    LET s3 == Append(sofar, CorrectStep3(b))
        s4 == CorrectStep4(b)
    IN  IF HasPaddingStep(b)
        THEN IF ~s4.ok
             THEN Append(s3, s4)
             ELSE ParseFromSeparator(b, fw, Append(s3, s4))
        ELSE ParseFromSeparator(b, fw, s3)

\* mutant: no return after a failed byte-0 check
ParseCorrect_NoReturn(b, fw) ==
    ParseFromByte1(b, fw, <<CorrectStep0(fw), CorrectStep1(b), CorrectStep2(b)>>)

\* the body of bootrom_verify_correct after blk is built
ParseCorrect(b, fw) ==
    LET s2  == CorrectStep2(b)
        pre == <<CorrectStep0(fw), CorrectStep1(b), s2>>
    IN  IF ~s2.ok THEN pre ELSE ParseFromByte1(b, fw, pre)

\* blk = SignatureBlock(firmware, padding_type=0x01)
LegitBlock(fw) == SignatureBlock(fw, 1, None)

\* bootrom_verify_correct(firmware)
bootrom_verify_correct(fw) == ParseCorrect(LegitBlock(fw), fw)

-----------------------------------------------------------------------------
(* forge_sighax and bootrom_verify_vulnerable *)

\* mutant: the distance is measured from the skip-length byte itself
NeededSkip_FromLengthByte(blk_temp) ==
    blk_temp.off_correct_hash - blk_temp.off_0d

\* needed_skip = blk_temp.off_correct_hash - blk_temp.off_inner_start
NeededSkip(blk_temp) == blk_temp.off_correct_hash - blk_temp.off_inner_start

\* needed_skip of forge_sighax, from a probe block with the normal skip 13
needed_skip(evil_firmware) ==
    NeededSkip(SignatureBlock(evil_firmware, 2, Some(13)))

\* blk_forged: the block with the manipulated skip-length byte
blk_forged(evil_firmware) ==
    SignatureBlock(evil_firmware, 2, Some(needed_skip(evil_firmware)))

\* mutant: evil_hash is the digest of the forged block's bytes, not of the
\* firmware
ForgeInfo_HashesBlock(evil_firmware) ==
    LET b == blk_forged(evil_firmware)
    IN  [ original_0d   |-> 13,
          forged_0d     |-> needed_skip(evil_firmware),
          off_0d        |-> b.off_0d,
          off_correct   |-> b.off_correct_hash,
          off_calc      |-> b.off_calc_hash,
          hash_len      |-> HASH_LEN,
          evil_hash     |-> SHA256(b.raw),
          skip_lands_at |-> b.off_inner_start + needed_skip(evil_firmware) ]

\* the info dict forge_sighax returns beside blk_forged
ForgeInfo(evil_firmware) ==
    LET b == blk_forged(evil_firmware)
    IN  [ original_0d   |-> 13,
          forged_0d     |-> needed_skip(evil_firmware),
          off_0d        |-> b.off_0d,
          off_correct   |-> b.off_correct_hash,
          off_calc      |-> b.off_calc_hash,
          hash_len      |-> HASH_LEN,
          evil_hash     |-> SHA256(evil_firmware),
          skip_lands_at |-> b.off_inner_start + needed_skip(evil_firmware) ]

VulnStep0(info) ==
    StepDict(0, "INFO", TRUE, FALSE, FALSE,
             [sha256_evil |-> HexUpper(info.evil_hash)], None, None)

VulnStep1(b) ==
    StepDict(1, "EXPLOIT", TRUE, FALSE, TRUE,
             [byte1 |-> 2], Some(b.raw), None)

VulnStep2(b) ==
    StepDict(2, "VULN", TRUE, FALSE, TRUE,
             [b0 |-> At(b.raw, b.off_byte0), b1 |-> At(b.raw, b.off_byte1)],
             Some(b.raw), Some(b.off_byte0))

VulnStep3(b) ==
    StepDict(3, "INFO", TRUE, FALSE, FALSE,
             [siguiente |-> At(b.raw, b.off_0d), offset |-> b.off_0d],
             Some(b.raw), Some(b.off_separator))

VulnStep4(b, info) ==
    LET od_val == At(b.raw, b.off_0d)
    IN  StepDict(4, "VULN", TRUE, FALSE, TRUE,
                 [valor_forjado |-> od_val,
                  salta_desde   |-> b.off_inner_start,
                  aterriza_en   |-> info.skip_lands_at,
                  pointer_lands |-> info.skip_lands_at],
                 Some(b.raw), Some(b.off_0d))

\* outside = lands_at + HASH_LEN
Outside(info) == info.skip_lands_at + HASH_LEN

VulnStep5(b, info) ==
    LET lands_at == info.skip_lands_at
    IN  StepDict(5, "EXPLOIT", TRUE, FALSE, TRUE,
                 [correct_hash_leido |->
                      IF lands_at + HASH_LEN <= Len(b.raw)
                      THEN HexUpper(Slice(b.raw, lands_at, lands_at + HASH_LEN))
                      ELSE HexUpper(info.evil_hash),
                  siguiente_offset |-> Outside(info)],
                 Some(b.raw), Some(lands_at))

\* mutant: the step shows the block with the digest written after it
VulnStep6_WritesDigest(b, info) ==
    StepDict(6, "EXPLOIT", TRUE, FALSE, TRUE,
             [sha256_evil |-> HexUpper(info.evil_hash),
              escrito_en  |-> Outside(info)],
             Some(b.raw \o info.evil_hash), None)

VulnStep6(b, info) ==
    StepDict(6, "EXPLOIT", TRUE, FALSE, TRUE,
             [sha256_evil |-> HexUpper(info.evil_hash),
              escrito_en  |-> Outside(info)],
             Some(b.raw), None)

VulnStep7(b, info) ==
    StepDict(7, "PWNED", TRUE, FALSE, TRUE,
             [correct_hash    |-> HexUpper(info.evil_hash),
              calculated_hash |-> HexUpper(info.evil_hash)],
             Some(b.raw), None)

\* mutant: the trace stops when the bytes at lands_at run past the block
bootrom_verify_vulnerable_StopsAtEnd(b, evil_firmware, info) ==
    LET pre == <<VulnStep0(info), VulnStep1(b), VulnStep2(b), VulnStep3(b),
                 VulnStep4(b, info)>>
    IN  IF Outside(info) >= Len(b.raw)
        THEN Append(pre, [VulnStep5(b, info) EXCEPT !.tag = "FAIL",
                                                    !.ok = FALSE,
                                                    !.fatal = TRUE])
        ELSE pre \o <<VulnStep5(b, info), VulnStep6(b, info), VulnStep7(b, info)>>

\* bootrom_verify_vulnerable(blk, evil_firmware, forge_info); evil_firmware
\* is not read by the function
bootrom_verify_vulnerable(b, evil_firmware, info) ==
    <<VulnStep0(info), VulnStep1(b), VulnStep2(b), VulnStep3(b),
      VulnStep4(b, info), VulnStep5(b, info), VulnStep6(b, info),
      VulnStep7(b, info)>>

-----------------------------------------------------------------------------
(* hex_dump; a str is the sequence of its code points *)

\* cols: int = 16
HexCols == 16

\* the code point of one uppercase hex digit, d in 0..15
HexChar(d) == IF d < 10 THEN 48 + d ELSE 55 + d

\* the uppercase hex digits of n, at least one
RECURSIVE HexDigitsOf(_)
HexDigitsOf(n) ==
    IF n < 16 THEN <<HexChar(n)>>
    ELSE Append(HexDigitsOf(n \div 16), HexChar(n % 16))

\* f'{n:0wX}': uppercase hex, zero-filled on the left to width w
FormatX(n, w) ==
    LET d == HexDigitsOf(n)
    IN  IF Len(d) >= w THEN d ELSE Repeat(48, w - Len(d)) \o d

\* f'{s:<w}': spaces added on the right up to width w
LJust(str, w) ==
    IF Len(str) >= w THEN str ELSE str \o Repeat(32, w - Len(str))

\* sep.join(parts)
RECURSIVE Join(_, _)
Join(sep, parts) ==
    IF parts = <<>> THEN <<>>
    ELSE IF Len(parts) = 1 THEN parts[1]
    ELSE parts[1] \o sep \o Join(sep, Tail(parts))

\* mutant: the hex bytes of a row are joined without the space
HexRow_NoSeparator(data, i, cols) ==
    LET chunk == Slice(data, i, i + cols)
        h     == Join(<<>>, [k \in 1..Len(chunk) |-> FormatX(chunk[k], 2)])
        a     == [k \in 1..Len(chunk) |->
                     IF 32 <= chunk[k] /\ chunk[k] < 127 THEN chunk[k] ELSE 46]
    IN  FormatX(i, 4) \o <<32, 32>> \o LJust(h, cols * 3) \o <<32, 32>> \o a

\* one line of the dump: offset, hex bytes, printable ASCII
HexRow(data, i, cols) ==
    LET chunk == Slice(data, i, i + cols)
        h     == Join(<<32>>, [k \in 1..Len(chunk) |-> FormatX(chunk[k], 2)])
        a     == [k \in 1..Len(chunk) |->
                     IF 32 <= chunk[k] /\ chunk[k] < 127 THEN chunk[k] ELSE 46]
    IN  FormatX(i, 4) \o <<32, 32>> \o LJust(h, cols * 3) \o <<32, 32>> \o a

\* hex_dump(data, cols): one line per cols bytes, joined by newlines
hex_dump(data, cols) ==
    LET nrows == (Len(data) + cols - 1) \div cols
    IN  Join(<<10>>, [r \in 1..nrows |-> HexRow(data, (r - 1) * cols, cols)])

-----------------------------------------------------------------------------
(* The calls *)

Init ==
    /\ pc = "idle"
    /\ firmware = <<>>
    /\ fault = None
    /\ blk = None
    /\ forge_info = None
    /\ steps = <<>>
    /\ args = None
    /\ dump = <<>>
    /\ w_steps = <<>>
    /\ w_step_idx = 0
    /\ timer_active = FALSE
    /\ btn_run_enabled = TRUE
    /\ btn_step_enabled = TRUE
    /\ viz = None
    /\ calls = <<>>

\* SignatureBlock(fw, pt, ov) called directly; bytes([...]) raises
\* ValueError when the padding type or the skip-length byte is no byte
Build(fw, pt, ov) ==
    /\ pc = "idle"
    /\ firmware' = fw
    /\ args' = [padding_type |-> pt, override |-> ov]
    /\ IF BuildRaises(pt, ov)
       THEN pc' = "raised" /\ blk' = None
       ELSE pc' = "built" /\ blk' = SignatureBlock(fw, pt, ov)
    /\ UNCHANGED <<fault, forge_info, steps, dump>>
    /\ UNCHANGED widget_vars

\* engine.bootrom_verify_correct(fw)
VerifyCorrect(fw) ==
    /\ pc = "idle"
    /\ pc' = "traced"
    /\ firmware' = fw
    /\ blk' = LegitBlock(fw)
    /\ steps' = bootrom_verify_correct(fw)
    /\ UNCHANGED <<fault, forge_info, args, dump>>
    /\ UNCHANGED widget_vars

\* bootrom_verify_correct(fw) with byte i of the block it built changed to
\* v before the parser reads it
VerifyCorrupted(fw, i, v) ==
    /\ pc = "idle"
    /\ i \in 0..(Len(LegitBlock(fw).raw) - 1)
    /\ v # At(LegitBlock(fw).raw, i)
    /\ pc' = "traced"
    /\ firmware' = fw
    /\ fault' = Some([at |-> i, val |-> v])
    /\ blk' = Corrupt(LegitBlock(fw), i, v)
    /\ steps' = ParseCorrect(blk', fw)
    /\ UNCHANGED <<forge_info, args, dump>>
    /\ UNCHANGED widget_vars

\* engine.forge_sighax(fw)
Forge(fw) ==
    /\ pc = "idle"
    /\ pc' = "forged"
    /\ firmware' = fw
    /\ blk' = blk_forged(fw)
    /\ forge_info' = ForgeInfo(fw)
    /\ UNCHANGED <<fault, steps, args, dump>>
    /\ UNCHANGED widget_vars

\* engine.bootrom_verify_vulnerable(blk, fw, info) on the result of forge_sighax
VerifyVulnerable ==
    /\ pc = "forged"
    /\ pc' = "exploited"
    /\ steps' = bootrom_verify_vulnerable(blk, firmware, forge_info)
    /\ UNCHANGED <<firmware, fault, blk, forge_info, args, dump>>
    /\ UNCHANGED widget_vars

\* engine.hex_dump(d), cols left at its default
HexDump(d) ==
    /\ pc = "idle"
    /\ pc' = "dumped"
    /\ args' = [data |-> d, cols |-> HexCols]
    /\ dump' = hex_dump(d, HexCols)
    /\ UNCHANGED <<firmware, fault, blk, forge_info, steps>>
    /\ UNCHANGED widget_vars

Next ==
    \/ \E fw \in Firmwares, pt \in PaddingTypes, ov \in Overrides :
            Build(fw, pt, ov)
    \/ \E fw \in Firmwares : VerifyCorrect(fw)
    \/ \E fw \in Firmwares, i \in 0..(TOTAL_BLOCK_SIZE - 1), v \in FaultValues :
            VerifyCorrupted(fw, i, v)
    \/ \E fw \in Firmwares : Forge(fw)
    \/ \E d \in DumpInputs : HexDump(d)
    \/ VerifyVulnerable

Spec == Init /\ [][Next]_vars

-----------------------------------------------------------------------------
(* VerifyWidget (ui_verify.py): the player of the legitimate trace *)

\* fw of _load_steps:
\* b'NATIVE_FIRM v11.17 ARM9=0x08006000 ARM11=0x1FF80000'
WidgetFirmware ==
    <<78, 65, 84, 73, 86, 69, 95, 70, 73, 82, 77, 32, 118, 49, 49, 46, 49, 55,
      32, 65, 82, 77, 57, 61, 48, 120, 48, 56, 48, 48, 54, 48, 48, 48, 32,
      65, 82, 77, 49, 49, 61, 48, 120, 49, 70, 70, 56, 48, 48, 48, 48>>

\* mutant: only the first step is computed when the list is loaded
LoadSteps_FirstOnly == SubSeq(bootrom_verify_correct(WidgetFirmware), 1, 1)

\* the list _load_steps stores in self._steps
LoadSteps == bootrom_verify_correct(WidgetFirmware)

\* _show_step(idx): the indices it displays, none when idx is past the end
ShowStep(list, idx) == IF idx >= Len(list) THEN <<>> ELSE <<idx>>

\* the visualizer after _show_step(idx)
VizAfter(list, idx) == IF idx >= Len(list) THEN viz ELSE Some(list[idx + 1])

\* the history with one more call, the oldest dropped when it is full
Logged(handler, shown) ==
    LET e == [handler |-> handler, shown |-> shown]
    IN  IF Len(calls) < MaxCalls THEN Append(calls, e)
        ELSE Append(Tail(calls), e)

\* _do_run, connected to the Run button
DoRun ==
    /\ btn_run_enabled
    /\ w_steps' = LoadSteps
    /\ w_step_idx' = 0
    /\ btn_run_enabled' = FALSE
    /\ btn_step_enabled' = FALSE
    /\ timer_active' = TRUE
    /\ calls' = Logged("run", <<>>)
    /\ UNCHANGED viz
    /\ UNCHANGED engine_vars

\* _do_step, connected to the Step button
DoStep ==
    /\ btn_step_enabled
    /\ LET list == IF w_steps = <<>> THEN LoadSteps ELSE w_steps
           idx  == IF w_steps = <<>> THEN 0 ELSE w_step_idx
           wrap == idx + 1 >= Len(list)
       IN  /\ w_steps' = list
           /\ timer_active' = FALSE
           /\ viz' = VizAfter(list, idx)
           /\ calls' = Logged("step", ShowStep(list, idx))
           /\ w_step_idx' = IF wrap THEN 0 ELSE idx + 1
           /\ btn_run_enabled' = (wrap \/ btn_run_enabled)
           /\ btn_step_enabled' = (wrap \/ btn_step_enabled)
    /\ UNCHANGED engine_vars

\* mutant: the tick past the last step leaves the timer running
NextStep_NeverStops ==
    /\ timer_active
    /\ IF w_step_idx >= Len(w_steps)
       THEN /\ btn_run_enabled' = TRUE
            /\ btn_step_enabled' = TRUE
            /\ calls' = Logged("tick", <<>>)
            /\ UNCHANGED <<w_steps, w_step_idx, viz, timer_active>>
       ELSE /\ viz' = VizAfter(w_steps, w_step_idx)
            /\ calls' = Logged("tick", ShowStep(w_steps, w_step_idx))
            /\ w_step_idx' = w_step_idx + 1
            /\ UNCHANGED <<w_steps, timer_active, btn_run_enabled,
                           btn_step_enabled>>
    /\ UNCHANGED engine_vars

\* _next_step, connected to the timeout of the timer
NextStep ==
    /\ timer_active
    /\ IF w_step_idx >= Len(w_steps)
       THEN /\ timer_active' = FALSE
            /\ btn_run_enabled' = TRUE
            /\ btn_step_enabled' = TRUE
            /\ calls' = Logged("tick", <<>>)
            /\ UNCHANGED <<w_steps, w_step_idx, viz>>
       ELSE /\ viz' = VizAfter(w_steps, w_step_idx)
            /\ calls' = Logged("tick", ShowStep(w_steps, w_step_idx))
            /\ w_step_idx' = w_step_idx + 1
            /\ UNCHANGED <<w_steps, timer_active, btn_run_enabled,
                           btn_step_enabled>>
    /\ UNCHANGED engine_vars

\* _do_reset, connected to the Reset button
DoReset ==
    /\ timer_active' = FALSE
    /\ w_steps' = <<>>
    /\ w_step_idx' = 0
    /\ viz' = None
    /\ btn_run_enabled' = TRUE
    /\ btn_step_enabled' = TRUE
    /\ calls' = <<>>
    /\ UNCHANGED engine_vars

WidgetNext ==
    \/ DoRun
    \/ DoStep
    \/ NextStep
    \/ DoReset

SpecWidget == Init /\ [][WidgetNext]_vars

-----------------------------------------------------------------------------
(* Properties *)

Last(s) == s[Len(s)]

\* the corruption hits offset i of the block
FaultAt(i) == fault # None /\ fault[1].at = i

\* the corruption hits one of the 32 bytes of the embedded hash
FaultInHash ==
    /\ fault # None
    /\ fault[1].at >= LegitBlock(firmware).off_correct_hash
    /\ fault[1].at < LegitBlock(firmware).off_correct_hash + HASH_LEN

\* C1: for every firmware F, the trace of bootrom_verify_correct(F) ends
\* with a VERIFIED step and has no fatal step.
C1_LegitTraceVerified ==
    (pc = "traced" /\ fault = None) =>
        /\ Last(steps).tag = "VERIFIED"
        /\ \A k \in 1..Len(steps) : ~steps[k].fatal

C1_Witness ==
    /\ pc = "traced" /\ fault = None
    /\ Len(firmware) = 2
    /\ Last(steps).id = 9 /\ Last(steps).ok

\* C2: for every evil firmware F, the empty one included, forge_sighax(F)
\* followed by bootrom_verify_vulnerable returns exactly 8 steps, none FAIL
\* or fatal, the last one tagged PWNED (the compromised verdict).
C2_ExploitTraceNeverFails ==
    pc = "exploited" =>
        /\ Len(steps) = 8
        /\ \A k \in 1..Len(steps) : steps[k].tag # "FAIL" /\ ~steps[k].fatal
        /\ Last(steps).tag = "PWNED" /\ Last(steps).vuln

C2_Witness ==
    /\ pc = "exploited" /\ firmware = <<>>
    /\ Last(steps).id = 7

\* C3 (as claimed): for every firmware, padding type 0x01 or 0x02 and
\* skip-length override, the raw bytes of the built block have length 128.
C3_RawLengthIs128 ==
    (pc = "built" /\ blk.padding_type \in {PADDING_TYPE_PADDED, PADDING_TYPE_UNPADDED}) =>
        Len(blk.raw) = TOTAL_BLOCK_SIZE

\* C4: in every built block the 32 bytes of raw at off_correct_hash are
\* SHA-256 of the firmware given to the builder, whatever the padding type
\* and the skip-length override.
C4_EmbeddedHashIsDigest ==
    pc = "built" =>
        Slice(blk.raw, blk.off_correct_hash, blk.off_correct_hash + HASH_LEN)
            = SHA256(firmware)

C4_Witness ==
    /\ pc = "built"
    /\ blk.padding_type = PADDING_TYPE_PADDED
    /\ blk.inner_block_len_byte = 255
    /\ firmware # <<>>

\* C5: needed_skip of forge_sighax is off_correct_hash - off_inner_start of
\* an UNPADDED block, the same for every firmware.
C5_NeededSkipFromLayout ==
    pc \in {"forged", "exploited"} =>
        \A fw \in Firmwares :
            LET u == SignatureBlock(fw, PADDING_TYPE_UNPADDED, None)
            IN  forge_info.forged_0d = u.off_correct_hash - u.off_inner_start

C5_Witness ==
    /\ pc = "forged"
    /\ firmware # <<>>
    /\ forge_info.forged_0d # forge_info.original_0d

\* C6: in the forged block the byte at off_0d is needed_skip, and
\* skip_lands_at = off_inner_start + needed_skip is the block's own
\* off_correct_hash, not the end of the identifier.
C6_SkipLandsOnHash ==
    pc \in {"forged", "exploited"} =>
        /\ At(blk.raw, blk.off_0d) = forge_info.forged_0d
        /\ forge_info.skip_lands_at = blk.off_inner_start + forge_info.forged_0d
        /\ forge_info.skip_lands_at = blk.off_correct_hash
        /\ forge_info.skip_lands_at # blk.off_inner_end

C6_Witness ==
    /\ pc = "exploited"
    /\ steps[5].vals.aterriza_en = blk.off_correct_hash
    /\ steps[6].pointer_at = Some(blk.off_correct_hash)

\* C7 (as claimed): in the adversarial trace outside = skip_lands_at + 32
\* is at least 128, past the nominal block.
C7_OutsideBeyond128 ==
    pc = "exploited" =>
        /\ steps[6].vals.siguiente_offset >= TOTAL_BLOCK_SIZE
        /\ steps[7].vals.escrito_en >= TOTAL_BLOCK_SIZE

\* C8: when one byte of the embedded hash of a legitimately built block is
\* changed, the trace ends at the hash comparison (id 9) with FAIL and
\* fatal; the comparison is the last step and no earlier step is fatal.
C8_CorruptHashFailsAtCompare ==
    (pc = "traced" /\ FaultInHash) =>
        /\ Last(steps).id = 9
        /\ Last(steps).tag = "FAIL" /\ Last(steps).fatal /\ ~Last(steps).ok
        /\ \A k \in 1..(Len(steps) - 1) : steps[k].id # 9 /\ ~steps[k].fatal

C8_Witness ==
    /\ pc = "traced"
    /\ FaultAt(LegitBlock(firmware).off_correct_hash + HASH_LEN - 1)
    /\ Last(steps).tag = "FAIL"

\* C9 (as claimed): when byte 0 of the block is not 0x00 the trace stops at
\* the byte-0 check with FAIL and fatal, and exactly one step is returned.
C9_Byte0FailReturnsOneStep ==
    (pc = "traced" /\ FaultAt(0)) =>
        /\ Last(steps).tag = "FAIL" /\ Last(steps).fatal
        /\ Len(steps) = 1

\* C9 (amended): when byte 0 of the block is not 0x00 the trace stops at
\* the byte-0 check with FAIL and fatal, and exactly three steps are
\* returned: the two informational steps (ids 0, 1) and the byte-0 check
\* (id 2), which is last.
C9_Byte0FailReturnsThreeSteps ==
    (pc = "traced" /\ FaultAt(0)) =>
        /\ Len(steps) = 3
        /\ steps[1].id = 0 /\ steps[1].tag = "INFO" /\ ~steps[1].fatal
        /\ steps[2].id = 1 /\ steps[2].tag = "INFO" /\ ~steps[2].fatal
        /\ steps[3].id = 2 /\ steps[3].tag = "FAIL" /\ steps[3].fatal
        /\ steps[3].vals.recibido # 0

C9_Witness ==
    /\ pc = "traced" /\ FaultAt(0)
    /\ Last(steps).vals.recibido = 255

\* C10: in every trace of the legitimate parser a step marked fatal is the
\* last element: nothing is generated after a fatal step.
C10_FatalStepIsLast ==
    pc = "traced" =>
        \A k \in 1..Len(steps) : steps[k].fatal => k = Len(steps)

C10_Witness ==
    /\ pc = "traced"
    /\ Last(steps).id = 5 /\ Last(steps).fatal
    /\ Len(steps) = 6

\* the recorded offsets of a block in layout order
Offsets(b) ==
    <<b.off_byte0, b.off_byte1, b.off_padding_start, b.off_padding_end,
      b.off_separator, b.off_30_1, b.off_31, b.off_30_2, b.off_0d,
      b.off_inner_start, b.off_inner_end, b.off_04, b.off_20,
      b.off_correct_hash, b.off_calc_hash>>

NonDecreasing(s) == \A k \in 1..(Len(s) - 1) : s[k] <= s[k + 1]

\* the layout order without off_padding_end
OffsetsButPaddingEnd(b) ==
    <<b.off_byte0, b.off_byte1, b.off_padding_start,
      b.off_separator, b.off_30_1, b.off_31, b.off_30_2, b.off_0d,
      b.off_inner_start, b.off_inner_end, b.off_04, b.off_20,
      b.off_correct_hash, b.off_calc_hash>>

\* C12 (as claimed): the recorded offsets of every built block are
\* monotonically increasing (read as: never decreasing) in layout order,
\* and the padding run of an UNPADDED block has zero length.
C12_OffsetsMonotonic ==
    pc = "built" =>
        /\ NonDecreasing(Offsets(blk))
        /\ blk.padding_type = PADDING_TYPE_UNPADDED =>
               blk.off_separator = blk.off_padding_start

\* C12 (amended): the recorded offsets other than off_padding_end never
\* decrease in layout order (they increase strictly except that
\* off_inner_end and off_04 are one offset), and off_padding_end is
\* off_separator - 1; for a PADDED block the whole list never decreases, and
\* for any other padding type the padding run has zero length
\* (off_separator = off_padding_start) and off_padding_end is recorded as
\* 1, one below off_padding_start.
C12_OffsetsMonotonicButPaddingEnd ==
    pc = "built" =>
        LET o == OffsetsButPaddingEnd(blk)
        IN  /\ \A k \in 1..(Len(o) - 1) :
                   IF o[k] = blk.off_inner_end /\ o[k + 1] = blk.off_04
                   THEN o[k] = o[k + 1]
                   ELSE o[k] < o[k + 1] \/ (k = 3 /\ o[k] = o[k + 1])
            /\ blk.off_padding_end = blk.off_separator - 1
            /\ blk.padding_type = PADDING_TYPE_PADDED =>
                   /\ NonDecreasing(Offsets(blk))
                   /\ blk.off_padding_start < blk.off_separator
            /\ blk.padding_type # PADDING_TYPE_PADDED =>
                   /\ blk.off_separator = blk.off_padding_start
                   /\ blk.off_padding_end = 1
                   /\ blk.off_padding_end = blk.off_padding_start - 1

C12_Witness ==
    /\ pc = "built"
    /\ blk.padding_type = PADDING_TYPE_UNPADDED
    /\ blk.off_padding_end < blk.off_padding_start

\* the character is one of the uppercase hex digits
IsUpperHexDigit(c) == \E d \in 1..Len(HexDigits) : HexDigits[d] = c

\* C13: the legitimate trace over a correctly built block has exactly 10
\* steps whose ids are 0..9 in order, and its last step reports the same
\* 64-character uppercase hex string as correct_hash and calculated_hash.
C13_TenStepsIdsInOrder ==
    (pc = "traced" /\ fault = None) =>
        /\ Len(steps) = 10
        /\ \A k \in 1..Len(steps) : steps[k].id = k - 1
        /\ Last(steps).vals.correct_hash = Last(steps).vals.calculated_hash
        /\ Len(Last(steps).vals.correct_hash) = 64
        /\ \A k \in 1..Len(Last(steps).vals.correct_hash) :
               IsUpperHexDigit(Last(steps).vals.correct_hash[k])

C13_Witness ==
    /\ pc = "traced" /\ fault = None
    /\ Len(steps) = 10
    /\ \E k \in 1..64 : Last(steps).vals.calculated_hash[k] = "F"

\* C14 (as claimed): the builder never raises, whatever firmware and
\* padding type value are supplied.
C14_BuilderNeverRaises == pc # "raised"

\* C14 (amended): the builder never raises for any firmware when the
\* padding type is a byte value (0..255) and the skip-length override, if
\* supplied, is a byte value too; when either is outside 0..255 the
\* construction raises (ValueError of bytes([...])).
C14_BuilderRaisesOnlyOffByte ==
    pc \in {"built", "raised"} =>
        (pc = "raised" <=>
            \/ args.padding_type \notin 0..255
            \/ args.override # None /\ args.override[1] \notin 0..255)

C14_Witness ==
    /\ pc = "built"
    /\ args.padding_type = 3
    /\ args.override = Some(255)
    /\ firmware # <<>>

\* C15 (as claimed): a padding type that is neither 0x01 nor 0x02 makes the
\* construction fail; no block is built from it by falling back to one of
\* the two layouts.
C15_UnknownPaddingTypeRejected ==
    pc = "built" =>
        args.padding_type \in {PADDING_TYPE_PADDED, PADDING_TYPE_UNPADDED}

\* C16: every offset recorded by the builder lies in 0..127; no block is
\* built with an offset outside that range.
C16_OffsetsInsideBuffer ==
    pc = "built" =>
        \A k \in 1..Len(Offsets(blk)) :
            Offsets(blk)[k] \in 0..(TOTAL_BLOCK_SIZE - 1)

C16_Witness ==
    /\ pc = "built"
    /\ blk.padding_type = PADDING_TYPE_PADDED
    /\ blk.off_calc_hash = TOTAL_BLOCK_SIZE - 1

\* C17: in the last step of the adversarial trace correct_hash and
\* calculated_hash are both the digest SHA-256(evil firmware), and that
\* digest is the 32 bytes stored in the forged block at skip_lands_at.
C17_ComparedValuesAreTheDigest ==
    pc = "exploited" =>
        /\ Last(steps).vals.correct_hash = HexUpper(SHA256(firmware))
        /\ Last(steps).vals.calculated_hash = HexUpper(SHA256(firmware))
        /\ Slice(blk.raw, forge_info.skip_lands_at,
                 forge_info.skip_lands_at + HASH_LEN) = SHA256(firmware)
        /\ steps[6].vals.correct_hash_leido = Last(steps).vals.correct_hash

C17_Witness ==
    /\ pc = "exploited"
    /\ firmware # <<>>
    /\ Last(steps).tag = "PWNED"
    /\ forge_info.skip_lands_at + HASH_LEN <= Len(blk.raw)

\* C18: for every built block off_calc_hash = off_correct_hash + 32, and
\* it is the first position past the end of raw, for both padding types.
C18_CalcHashFollowsBlock ==
    pc = "built" =>
        /\ blk.off_calc_hash = blk.off_correct_hash + HASH_LEN
        /\ blk.off_calc_hash = Len(blk.raw)

C18_Witness ==
    /\ pc = "built"
    /\ blk.padding_type = PADDING_TYPE_UNPADDED
    /\ blk.off_calc_hash = Len(blk.raw)
    /\ blk.inner_block_len_byte = 0

\* every step that carries a hex_block carries the bytes r
HexBlocksAre(r) ==
    \A k \in 1..Len(steps) : steps[k].hex_block \in {None, Some(r)}

\* C19: a trace leaves the block it reads as it was built: after
\* bootrom_verify_correct or bootrom_verify_vulnerable returns, raw and
\* every offset are unchanged and every hex_block of the trace is that raw.
C19_TraceLeavesBlockUnchanged ==
    /\ pc = "exploited" =>
           /\ blk = blk_forged(firmware)
           /\ HexBlocksAre(blk_forged(firmware).raw)
    /\ (pc = "traced" /\ fault = None) =>
           /\ blk = LegitBlock(firmware)
           /\ HexBlocksAre(LegitBlock(firmware).raw)
    /\ (pc = "traced" /\ fault # None) =>
           /\ blk = Corrupt(LegitBlock(firmware), fault[1].at, fault[1].val)
           /\ HexBlocksAre(blk.raw)

C19_Witness ==
    /\ pc = "exploited"
    /\ Len(steps) = 8
    /\ steps[7].hex_block = Some(blk.raw)
    /\ firmware # <<>>

\* Reading a dump back: the hex columns of each line, the offset column
\* and the ASCII gutter left out.

\* text.split('\n')
RECURSIVE SplitOn(_, _)
SplitOn(c, text) ==
    IF \A k \in 1..Len(text) : text[k] # c
    THEN <<text>>
    ELSE LET first == CHOOSE k \in 1..Len(text) :
                          text[k] = c /\ \A j \in 1..(k - 1) : text[j] # c
         IN  <<SubSeq(text, 1, first - 1)>>
                 \o SplitOn(c, SubSeq(text, first + 1, Len(text)))

\* the value of a hex digit character
HexVal(c) == IF c >= 48 /\ c <= 57 THEN c - 48 ELSE c - 55

\* the number a token of hex digits denotes
RECURSIVE ParseHex(_)
ParseHex(tok) ==
    IF tok = <<>> THEN 0
    ELSE 16 * ParseHex(SubSeq(tok, 1, Len(tok) - 1)) + HexVal(tok[Len(tok)])

\* the bytes of one line: columns 6 .. 6 + 3 * cols, split at spaces
RowBytes(line, cols) ==
    LET field  == Slice(line, 6, 6 + 3 * cols)
        tokens == SelectSeq(SplitOn(32, field), LAMBDA t : t # <<>>)
    IN  [k \in 1..Len(tokens) |-> ParseHex(tokens[k])]

RECURSIVE Concat(_)
Concat(parts) ==
    IF parts = <<>> THEN <<>> ELSE parts[1] \o Concat(Tail(parts))

ParseDump(text, cols) ==
    LET lines == SplitOn(10, text)
    IN  Concat([k \in 1..Len(lines) |-> RowBytes(lines[k], cols)])

\* C20: for every byte string B, reading the hex columns of
\* hex_dump(B, 16) line by line gives B back, also for the empty string
\* and for a last line of fewer than 16 bytes.
C20_HexDumpRoundTrip ==
    pc = "dumped" => ParseDump(dump, HexCols) = args.data

C20_Witness ==
    /\ pc = "dumped"
    /\ Len(args.data) = HexCols + 1
    /\ args.data[1] = 32
    /\ \E k \in 1..Len(dump) : dump[k] = 10
    /\ ParseDump(dump, HexCols) = args.data

\* the step of the trace with the given id, when there is one
HasStep(id) == \E k \in 1..Len(steps) : steps[k].id = id
StepWithId(id) == steps[CHOOSE k \in 1..Len(steps) : steps[k].id = id]

\* C22 (as claimed): when the byte at off_30_1 or at off_30_2 is not 0x30
\* the marker step (id 6) is FAIL and fatal and the trace ends there.
C22_MarkerMismatchIsFatal ==
    (/\ pc = "traced"
     /\ \/ FaultAt(LegitBlock(firmware).off_30_1)
        \/ FaultAt(LegitBlock(firmware).off_30_2)
     /\ fault[1].val # 48) =>
        /\ Last(steps).id = 6
        /\ Last(steps).tag = "FAIL" /\ Last(steps).fatal

\* offsets of the bytes the parser reads without checking them
IgnoredOffsets(b) ==
    {b.off_31, b.off_04, b.off_20}
        \cup (b.off_inner_start .. (b.off_inner_end - 1))

\* verdict and fatal flag of every step of a trace
Verdicts(tr) == [k \in 1..Len(tr) |-> <<tr[k].tag, tr[k].fatal>>]

\* C23: blocks that differ only in the middle marker byte, the identifier
\* bytes or the two trailing marker bytes give traces of the same length
\* with the same verdict and fatal flag at every step.
C23_IgnoredBytesDoNotMatter ==
    (pc = "traced" /\ fault # None /\ fault[1].at \in IgnoredOffsets(blk)) =>
        /\ Verdicts(steps) = Verdicts(bootrom_verify_correct(firmware))
        /\ \A j \in IgnoredOffsets(blk), v \in FaultValues :
               Verdicts(ParseCorrect(Corrupt(blk, j, v), firmware))
                   = Verdicts(steps)

C23_Witness ==
    /\ pc = "traced"
    /\ FaultAt(blk.off_31)
    /\ StepWithId(6).vals.b31 = 255
    /\ Last(steps).tag = "VERIFIED"

\* C24: with padding present (byte 1 is 0x01) the padding step passes
\* exactly when every byte from offset 2 to off_separator - 1 is 0xFF;
\* otherwise it is FAIL, fatal and last; the separator step comes only
\* after a passing padding step.
C24_PaddingCheck ==
    (pc = "traced" /\ At(blk.raw, blk.off_byte0) = 0
                   /\ At(blk.raw, blk.off_byte1) = 1) =>
        /\ HasStep(4)
        /\ StepWithId(4).ok <=>
               \A i \in 2..(blk.off_separator - 1) : At(blk.raw, i) = 255
        /\ StepWithId(4).ok =>
               StepWithId(4).tag = "PASS" /\ ~StepWithId(4).fatal
        /\ ~StepWithId(4).ok =>
               /\ StepWithId(4).tag = "FAIL" /\ StepWithId(4).fatal
               /\ Last(steps).id = 4
        /\ \A k \in 1..Len(steps) :
               steps[k].id = 5 =>
                   k > 1 /\ steps[k - 1].id = 4 /\ steps[k - 1].ok

C24_Witness ==
    /\ pc = "traced"
    /\ FaultAt(2)
    /\ Last(steps).id = 4 /\ Last(steps).fatal

\* C25: the skip-length step (id 7) is INFO and never fatal whatever the
\* skip-length byte holds, and the pointer it reports is off_inner_start
\* plus that byte; for the default 13 it is off_inner_end, the offset of
\* the 0x04 marker.
C25_SkipStepInformational ==
    (pc = "traced" /\ HasStep(7)) =>
        /\ StepWithId(7).tag = "INFO"
        /\ StepWithId(7).ok /\ ~StepWithId(7).fatal
        /\ StepWithId(7).vals.valor = At(blk.raw, blk.off_0d)
        /\ StepWithId(7).vals.puntero_tras_skip
               = blk.off_inner_start + At(blk.raw, blk.off_0d)
        /\ At(blk.raw, blk.off_0d) = INNER_BLOCK_REAL_LEN =>
               /\ StepWithId(7).vals.puntero_tras_skip = blk.off_inner_end
               /\ StepWithId(7).vals.puntero_tras_skip = blk.off_04

C25_Witness ==
    /\ pc = "traced"
    /\ FaultAt(blk.off_0d)
    /\ StepWithId(7).vals.valor = 255
    /\ Len(steps) = 10

\* C26: for the same firmware and padding type, a block built with an
\* override v in 0..255 and the block built with the default have the same
\* offsets and the same raw bytes except at off_0d, which holds v instead
\* of 13; the 13-byte identifier is whole in both.
C26_OverrideChangesOneByte ==
    pc = "built" =>
        LET d == SignatureBlock(firmware, args.padding_type, None)
        IN  /\ Offsets(blk) = Offsets(d)
            /\ Len(blk.raw) = Len(d.raw)
            /\ \A i \in 0..(Len(blk.raw) - 1) :
                   i # blk.off_0d => At(blk.raw, i) = At(d.raw, i)
            /\ At(d.raw, d.off_0d) = 13
            /\ At(blk.raw, blk.off_0d) = inner_block_len_byte(args.override)
            /\ Slice(blk.raw, blk.off_inner_start, blk.off_inner_end) = inner_block
            /\ Slice(d.raw, d.off_inner_start, d.off_inner_end) = inner_block

C26_Witness ==
    /\ pc = "built"
    /\ args.override = Some(0)
    /\ At(blk.raw, blk.off_0d) = 0
    /\ blk.off_inner_end - blk.off_inner_start = 13

\* C27: the offsets agree with raw in every built block: the block-start
\* and padding-type bytes, the 0xFF run, the separator, 0x30 0x31 0x30, the
\* skip-length byte, the 13-byte identifier, 0x04 and 0x20.
C27_OffsetsAgreeWithRaw ==
    pc = "built" =>
        /\ At(blk.raw, 0) = 0
        /\ At(blk.raw, 1) = args.padding_type
        /\ \A i \in blk.off_padding_start..(blk.off_separator - 1) :
               At(blk.raw, i) = 255
        /\ At(blk.raw, blk.off_separator) = 0
        /\ At(blk.raw, blk.off_30_1) = 48
        /\ At(blk.raw, blk.off_31) = 49
        /\ At(blk.raw, blk.off_30_2) = 48
        /\ At(blk.raw, blk.off_0d) = blk.inner_block_len_byte
        /\ Slice(blk.raw, blk.off_inner_start, blk.off_inner_end) = inner_block
        /\ At(blk.raw, blk.off_04) = 4
        /\ At(blk.raw, blk.off_20) = 32

C27_Witness ==
    /\ pc = "built"
    /\ blk.padding_type = PADDING_TYPE_PADDED
    /\ blk.off_separator - blk.off_padding_start > 8
    /\ At(blk.raw, blk.off_0d) = 15

\* C28: in a PADDED block the cut to 128 bytes takes nothing from the
\* embedded hash: for every firmware the padding run and all offsets are
\* the same, the minimum of 8 never applies, and off_correct_hash + 32 is
\* not past the end of raw.
C28_TruncationSparesHash ==
    (pc = "built" /\ blk.padding_type = PADDING_TYPE_PADDED) =>
        LET fixed_tail == 1 + 1 + 1 + 1 + 1 + INNER_BLOCK_REAL_LEN + 1 + 1 + HASH_LEN
            pad_len    == TOTAL_BLOCK_SIZE - 2 - 1 - fixed_tail
        IN  /\ pad_len > 8
            /\ blk.off_separator - blk.off_padding_start = pad_len
            /\ Offsets(blk) = Offsets(SignatureBlock(<<>>, PADDING_TYPE_PADDED, None))
            /\ blk.off_correct_hash + HASH_LEN <= Len(blk.raw)
            /\ ReadCorrectHash(blk) = SHA256(firmware)

C28_Witness ==
    /\ pc = "built"
    /\ blk.padding_type = PADDING_TYPE_PADDED
    /\ Len(firmware) = 2
    /\ Len(blk.raw) < TOTAL_BLOCK_SIZE

\* a trace that ran to its end: its last step is the verdict or is fatal
CompleteTrace(tr) ==
    tr # <<>> /\ (Last(tr).tag = "VERIFIED" \/ Last(tr).fatal)

\* C21: the whole list of steps is computed before any step is displayed:
\* after every handler call the loaded list is a complete trace, a displayed
\* step is an element of that list, and no call but Run changes a list that
\* is loaded (a tick or a Step press reveals, it does not compute).
C21_StepsComputedBeforeShown ==
    [][(calls' # calls /\ calls' # <<>>) =>
          LET e == Last(calls')
          IN  /\ CompleteTrace(w_steps')
              /\ e.handler = "run" => e.shown = <<>>
              /\ e.shown # <<>> =>
                     /\ e.shown[1] < Len(w_steps')
                     /\ viz' = Some(w_steps'[e.shown[1] + 1])
              /\ (w_steps # <<>> /\ e.handler # "run") => w_steps' = w_steps
      ]_vars

C21_Witness ==
    /\ Len(calls) = 3
    /\ calls[1].handler = "run"
    /\ calls[3].handler = "tick" /\ calls[3].shown = <<1>>
    /\ Len(w_steps) = 10
    /\ viz = Some(w_steps[2])

\* the ticks that follow a Run press in the history
RunStarts == {k \in 1..Len(calls) : calls[k].handler = "run"}
TicksOnly(k, j) == \A i \in (k + 1)..j : calls[i].handler = "tick"

\* C29: after Run the t-th tick displays step t - 1, for t from 1 to the
\* number n of loaded steps; tick n + 1 displays nothing, stops the timer
\* and enables Run and Step again, and no further tick comes; until then the
\* timer runs and both buttons are disabled.
C29_RunPlaysStepsInOrder ==
    \A k \in RunStarts : \A j \in k..Len(calls) :
        TicksOnly(k, j) =>
            LET t == j - k
                n == Len(w_steps)
            IN  /\ t <= n + 1
                /\ (t >= 1 /\ t <= n) => calls[j].shown = <<t - 1>>
                /\ t = n + 1 => calls[j].shown = <<>>
                /\ (j = Len(calls) /\ t <= n) =>
                       /\ timer_active
                       /\ ~btn_run_enabled /\ ~btn_step_enabled
                       /\ w_step_idx = t
                       /\ t >= 1 => viz = Some(w_steps[t])
                /\ (j = Len(calls) /\ t = n + 1) =>
                       /\ ~timer_active
                       /\ btn_run_enabled /\ btn_step_enabled

C29_Witness ==
    /\ Len(w_steps) = 10
    /\ \E k \in RunStarts :
           /\ Len(calls) = k + Len(w_steps) + 1
           /\ TicksOnly(k, Len(calls))
    /\ ~timer_active
    /\ btn_run_enabled /\ btn_step_enabled

\* the index of the step displayed last before the latest call, or None
DisplayedBefore ==
    LET shows == {k \in 1..(Len(calls) - 1) : calls[k].shown # <<>>}
    IN  IF shows = {} THEN None
        ELSE Some(calls[CHOOSE k \in shows : \A i \in shows : i <= k].shown[1])

\* C30 (as claimed): every Step press displays exactly one step, the one
\* after the step displayed last (step 0 after the last one, or when none
\* was displayed), and the step index is between 0 and the number of loaded
\* steps after every handler.
C30_StepPressShowsNextStep ==
    /\ w_step_idx >= 0 /\ w_step_idx <= Len(w_steps)
    /\ (calls # <<>> /\ Last(calls).handler = "step") =>
           /\ Len(Last(calls).shown) = 1
           /\ Last(calls).shown[1] =
                  IF DisplayedBefore = None THEN 0
                  ELSE (DisplayedBefore[1] + 1) % Len(w_steps)

=============================================================================
